---------------------------- MODULE Spec2Model ----------------------------
(***************************************************************************)
(* jikan - cli timesheet.  A model of src/main.rs: the monthly timesheet   *)
(* file of a project, the `set` command that loads, updates and rewrites   *)
(* it, and the two-line calendar rendering of `display`.                   *)
(*                                                                         *)
(* Text (file contents, file names, printed cells) is a sequence of        *)
(* one-character strings, so that formatting, joining, splitting and       *)
(* parsing are computed character by character as the code does.           *)
(* A calendar date (chrono::NaiveDate) is a record [y, m, d].              *)
(***************************************************************************)
EXTENDS Integers, Sequences, FiniteSets

VARIABLES
    files,      \* the storage directory: file name -> content
    dirExists,  \* whether the storage directory exists
    pc,         \* position of the running invocation
    cmd,        \* subcommand of the running invocation
    project,    \* -p / --project
    day,        \* handle_set: -d / --day
    time,       \* handle_set: -t / --hours
    existed,    \* handle_set: result of fs::try_exists
    data,       \* content read by read_to_string
    state,      \* handle_set: the month's record, date -> hours, then its sorted Vec
    now,        \* print_display / handle_print: the date to show
    out,        \* tokens printed to the terminal by the invocation
    err,        \* the error the invocation ended with
    n           \* number of invocations started

vars == <<files, dirExists, pc, cmd, project, day, time, existed, data,
          state, now, out, err, n>>

-----------------------------------------------------------------------------
(* Bounds *)

\* invocations of the tool in one behaviour
MaxInvocations == 2

-----------------------------------------------------------------------------
(* Calendar: chrono::NaiveDate, Datelike, Duration::days(1), Weekday *)

Date(y, m, d) == [y |-> y, m |-> m, d |-> d]

NoDate == Date(0, 0, 0)

IsLeap(y) == (y % 4 = 0 /\ y % 100 # 0) \/ y % 400 = 0

DaysInMonth(y, m) ==
    IF m = 2 THEN (IF IsLeap(y) THEN 29 ELSE 28)
    ELSE IF m \in {4, 6, 9, 11} THEN 30
    ELSE 31

\* date.with_day(1)
WithDay1(date) == Date(date.y, date.m, 1)

\* date + Duration::days(1)
Succ(date) ==
    IF date.d < DaysInMonth(date.y, date.m) THEN Date(date.y, date.m, date.d + 1)
    ELSE IF date.m < 12 THEN Date(date.y, date.m + 1, 1)
    ELSE Date(date.y + 1, 1, 1)

\* l_key.cmp(r_key) == Less
DateLess(a, b) ==
    \/ a.y < b.y
    \/ a.y = b.y /\ a.m < b.m
    \/ a.y = b.y /\ a.m = b.m /\ a.d < b.d

RECURSIVE DaysBeforeMonth(_, _)
DaysBeforeMonth(y, m) ==
    IF m = 1 THEN 0 ELSE DaysBeforeMonth(y, m - 1) + DaysInMonth(y, m - 1)

\* days since 0000-12-31 (proleptic Gregorian), so that 0001-01-01 is day 1
DayNumber(date) ==
    LET p == date.y - 1
    IN  365 * p + (p \div 4) - (p \div 100) + (p \div 400)
        + DaysBeforeMonth(date.y, date.m) + date.d

WeekdayNames == <<"Sun", "Mon", "Tue", "Wed", "Thu", "Fri", "Sat">>

\* date.weekday(); 0001-01-01 is a Monday
Weekday(date) == WeekdayNames[(DayNumber(date) % 7) + 1]

-----------------------------------------------------------------------------
(* Text: to_string, format, join, lines, split, parse *)

Digits == <<"0", "1", "2", "3", "4", "5", "6", "7", "8", "9">>

DigitChar(k) == Digits[k + 1]

IsDigit(c) == \E k \in 0..9 : Digits[k + 1] = c

DigitValue(c) == CHOOSE k \in 0..9 : Digits[k + 1] = c

\* usize / u32 to_string(): decimal, no sign, no leading zero
RECURSIVE to_string(_)
to_string(k) ==
    IF k < 10 THEN <<DigitChar(k)>>
    ELSE Append(to_string(k \div 10), DigitChar(k % 10))

\* zero-padded decimal of width w (chrono's %m, %d, %Y)
RECURSIVE ZeroPad(_, _)
ZeroPad(s, w) == IF Len(s) >= w THEN s ELSE ZeroPad(<<"0">> \o s, w)

\* NaiveDate::to_string(), "%Y-%m-%d"
DateToString(date) ==
    ZeroPad(to_string(date.y), 4) \o <<"-">> \o ZeroPad(to_string(date.m), 2)
        \o <<"-">> \o ZeroPad(to_string(date.d), 2)

\* date.format("%m-%Y")
FormatMonthYear(date) ==
    ZeroPad(to_string(date.m), 2) \o <<"-">> \o ZeroPad(to_string(date.y), 4)

\* format!("{}-time-{}.csv", project, date.format("%m-%Y"))
TimesheetFilePath(proj, date) ==
    proj \o <<"-", "t", "i", "m", "e", "-">> \o FormatMonthYear(date)
        \o <<".", "c", "s", "v">>

\* itertools join
RECURSIVE Join(_, _)
Join(items, sep) ==
    IF Len(items) = 0 THEN <<>>
    ELSE IF Len(items) = 1 THEN items[1]
    ELSE items[1] \o sep \o Join(Tail(items), sep)

\* str::split(sep): the pieces between the separators, always at least one;
\* start is where the piece being read begins
RECURSIVE SplitFrom(_, _, _, _)
SplitFrom(s, sep, start, pieces) ==
    IF \E i \in start..Len(s) : s[i] = sep
    THEN LET i == CHOOSE i \in start..Len(s) :
                      s[i] = sep /\ \A j \in start..(i - 1) : s[j] # sep
         IN  SplitFrom(s, sep, i + 1, Append(pieces, SubSeq(s, start, i - 1)))
    ELSE Append(pieces, SubSeq(s, start, Len(s)))

Split(s, sep) == SplitFrom(s, sep, 1, <<>>)

\* str::lines(): split at "\n", a final empty piece is no line (no content
\* here holds a "\r")
Lines(s) ==
    LET pieces == Split(s, "\n")
    IN  IF pieces[Len(pieces)] = <<>> THEN SubSeq(pieces, 1, Len(pieces) - 1)
        ELSE pieces

ParseError == -1

RECURSIVE DigitsValue(_, _)
DigitsValue(s, acc) ==
    IF Len(s) = 0 THEN acc
    ELSE IF ~IsDigit(Head(s)) THEN ParseError
    ELSE DigitsValue(Tail(s), 10 * acc + DigitValue(Head(s)))

\* str::parse::<usize>(): an optional "+", then one or more decimal digits
\* (the tokens met here are too short to exceed usize::MAX)
ParseUsize(tok) ==
    IF Len(tok) = 0 THEN ParseError
    ELSE IF Len(tok) = 1 /\ tok[1] \in {"+", "-"} THEN ParseError
    ELSE IF tok[1] = "+" THEN DigitsValue(Tail(tok), 0)
    ELSE DigitsValue(tok, 0)

\* format "{:<3}" and "{: <3}": left-aligned, filled with spaces up to a
\* width of 3, longer text unchanged; the colour of a ColoredString is put
\* around the padded text
RECURSIVE LeftAlign3(_)
LeftAlign3(s) == IF Len(s) >= 3 THEN s ELSE LeftAlign3(Append(s, " "))

-----------------------------------------------------------------------------
(* The month's record: HashMap<NaiveDate, usize> *)

EmptyMap == <<>>

\* HashMap::insert
Insert(map, k, v) == [x \in (DOMAIN map) \cup {k} |-> IF x = k THEN v ELSE map[x]]

\* a loop that runs one day too far: it also takes the first day of the next month
InMonthOrNextFirst(it, dy) == it.m = dy.m \/ (it.d = 1 /\ it # WithDay1(dy))

\* the loops of handle_set, draw_days and draw_timesheet run
\* while iter.month() == day.month()
InMonth(it, dy) == it.m = dy.m

LoadResult(e, st) == [err |-> e, state |-> st]

\* handle_set, the file exists: one parsed token per day of the month
RECURSIVE ReadMonth(_, _, _, _)
ReadMonth(it, dy, dt, current) ==
    IF ~InMonth(it, dy) THEN LoadResult("", current)
    ELSE IF Len(dt) = 0 THEN LoadResult("Missing data in month report", current)
    ELSE IF ParseUsize(Head(dt)) = ParseError THEN LoadResult("ParseIntError", current)
    ELSE ReadMonth(Succ(it), dy, Tail(dt), Insert(current, it, ParseUsize(Head(dt))))

\* a load that reads the first line, lines().nth(0), as the data line
LoadFirstLine(content, dy) ==
    LET ls == Lines(content)
    IN  IF Len(ls) < 1 THEN LoadResult("Invalid timesheet format", EmptyMap)
        ELSE ReadMonth(WithDay1(dy), dy, Split(ls[1], ","), EmptyMap)

\* handle_set, the file exists: lines().nth(1), split(','), then the loop
LoadExisting(content, dy) ==
    LET ls == Lines(content)
    IN  IF Len(ls) < 2 THEN LoadResult("Invalid timesheet format", EmptyMap)
        ELSE ReadMonth(WithDay1(dy), dy, Split(ls[2], ","), EmptyMap)

\* handle_set, the file does not exist: 0 for every day of the month
RECURSIVE FreshMonth(_, _, _)
FreshMonth(it, dy, current) ==
    IF ~InMonth(it, dy) THEN current
    ELSE FreshMonth(Succ(it), dy, Insert(current, it, 0))

\* an update that keeps no other day: a fresh record with the one day set
SetDayOnFresh(st, dy, t) == [x \in DOMAIN st |-> IF x = dy THEN t ELSE 0]

\* *state.get_mut(&day).unwrap() = time
SetDay(st, dy, t) == [st EXCEPT ![dy] = t]

\* sort_by(|(l_key, _), (r_key, _)| l_key.cmp(r_key)) of the entries whose keys
\* are D: the least key first, then the rest
RECURSIVE SortByKey(_, _)
SortByKey(st, D) ==
    IF D = {} THEN <<>>
    ELSE LET k == CHOOSE x \in D : \A j \in D : ~DateLess(j, x)
         IN  <<(<<k, st[k]>>)>> \o SortByKey(st, D \ {k})

\* the entries collected without the sort, in an order a HashMap may give
RECURSIVE Descending(_, _)
Descending(st, D) ==
    IF D = {} THEN <<>>
    ELSE LET k == CHOOSE x \in D : \A j \in D : ~DateLess(x, j)
         IN  <<(<<k, st[k]>>)>> \o Descending(st, D \ {k})

UnsortedEntries(st) == Descending(st, DOMAIN st)

\* state.into_iter().collect() and the sort: the entries in ascending date
\* order (the keys are distinct, so the map's iteration order is immaterial)
SortedEntries(st) == SortByKey(st, DOMAIN st)

\* state.iter().map(|(date, _)| date.to_string()).join(",")
DatesLine(entries) ==
    Join([i \in 1..Len(entries) |-> DateToString(entries[i][1])], <<",">>)

\* state.iter().map(|(_, hours)| hours.to_string()).join(",")
HoursLine(entries) ==
    Join([i \in 1..Len(entries) |-> to_string(entries[i][2])], <<",">>)

-----------------------------------------------------------------------------
(* Printed tokens *)

Token(style, text) == [style |-> style, text |-> text]

\* iter.day().to_string().black().on_blue(), "{: <3}"
HeaderCell(it) == Token("header", LeftAlign3(to_string(it.d)))

\* "|".black().on_cyan()
Separator == Token("sep", <<"|">>)

\* println!()
Newline == Token("nl", <<"\n">>)

\* a separator test on the wrong weekday
StartsWeekOnSunday(it) == Weekday(it) = "Sun"

\* the separator is printed when the date after the cell is a Monday
StartsWeek(it) == Weekday(it) = "Mon"

\* a weekend test that forgets Saturday
IsSunday(it) == Weekday(it) = "Sun"

\* matches!(iter.weekday(), Weekday::Sat | Weekday::Sun)
IsWeekend(it) == Weekday(it) \in {"Sat", "Sun"}

\* if amt == "0" { "   " } else { amt }
BlankIfZero(amt) == IF amt = <<"0">> THEN <<" ", " ", " ">> ELSE amt

\* one cell of draw_timesheet, "{:<3}"
HoursCell(it, amt) ==
    IF IsWeekend(it) THEN Token("weekend", LeftAlign3(BlankIfZero(amt)))
    ELSE Token("weekday", LeftAlign3(amt))

\* the separator after a cell: iter += Duration::days(1), then the test
AfterCell(it) == IF StartsWeek(Succ(it)) THEN <<Separator>> ELSE <<>>

\* the loop of draw_days, then println!()
RECURSIVE DayCells(_, _, _)
DayCells(it, nw, printed) ==
    IF ~InMonth(it, nw) THEN Append(printed, Newline)
    ELSE DayCells(Succ(it), nw, printed \o <<HeaderCell(it)>> \o AfterCell(it))

DrawResult(e, printed) == [err |-> e, out |-> printed]

\* the loop of draw_timesheet, then println!(); dt is what data.next() has
\* not yet returned
RECURSIVE HourCells(_, _, _, _)
HourCells(it, nw, dt, printed) ==
    IF ~InMonth(it, nw) THEN DrawResult("", Append(printed, Newline))
    ELSE IF Len(dt) = 0 THEN DrawResult("Missing day data", printed)
    ELSE HourCells(Succ(it), nw, Tail(dt),
                   printed \o <<HoursCell(it, Head(dt))>> \o AfterCell(it))

-----------------------------------------------------------------------------
(* Inputs: the command line, and the storage directory found at start-up *)

Commands == {"set", "display", "print-csv"}

Projects == {<<"p">>}

\* -d / --day, -d / --date: the last day of a 28-day month, a Sunday that ends
\* a 31-day month and a year, the last day of a leap-year February, a Monday
\* that starts a 30-day month and the Saturday after it
TestDates ==
    { Date(2023, 2, 28), Date(2023, 12, 31), Date(2024, 2, 29),
      Date(2024, 4, 1), Date(2024, 4, 6) }

\* the months that have a file before the first invocation
PreDates == {Date(2024, 4, 1)}

\* -t / --hours
TestHours == {0, 8}

\* the dates line handle_set writes for the month of dy
MonthDatesLine(dy) == DatesLine(SortedEntries(FreshMonth(WithDay1(dy), dy, EmptyMap)))

FileOf(header, tokens) == header \o <<"\n">> \o Join(tokens, <<",">>) \o <<"\n">>

Zeros(k) == [i \in 1..k |-> <<"0">>]

\* tokens a hand-edited data line may hold
EditedTokens ==
    { <<"-", "1">>, <<"x">>, <<"0", "8">>, <<"+", "8">>, <<>>, <<"1", "2">> }

\* contents a timesheet file may have before the first invocation: written by
\* an earlier run, cut short, or edited by hand (the 2nd of the month, and a
\* 00 for the 7th)
PreExisting(dy) ==
    LET N == DaysInMonth(dy.y, dy.m)
        hdr == MonthDatesLine(dy)
    IN  { <<>>, hdr \o <<"\n">>,
          FileOf(hdr, Zeros(N)),
          FileOf(hdr, Zeros(N - 1)),
          FileOf(hdr, Zeros(N + 1)),
          FileOf(<<"x">>, Zeros(N)) }
        \cup { FileOf(hdr, [Zeros(N) EXCEPT ![2] = tok]) : tok \in EditedTokens }
        \cup { FileOf(hdr, [Zeros(N) EXCEPT ![7] = <<"0", "0">>]) }

-----------------------------------------------------------------------------
(* The state machine *)

Init ==
    /\ \/ files = EmptyMap /\ dirExists \in BOOLEAN
       \/ \E p \in Projects, d \in PreDates : \E c \in PreExisting(d) :
              /\ files = Insert(EmptyMap, TimesheetFilePath(p, d), c)
              /\ dirExists = TRUE
    /\ pc = "idle"
    /\ cmd = ""
    /\ project = <<>>
    /\ day = NoDate
    /\ time = 0
    /\ existed = FALSE
    /\ data = <<>>
    /\ state = EmptyMap
    /\ now = NoDate
    /\ out = <<>>
    /\ err = ""
    /\ n = 0

Fail(e) == pc' = "failed" /\ err' = e

\* main: one run of the tool, after the previous one has ended
Main(c, p, d, t) ==
    /\ pc \in {"idle", "done", "failed"}
    /\ n < MaxInvocations
    /\ n' = n + 1
    /\ cmd' = c
    /\ project' = p
    /\ existed' = FALSE
    /\ data' = <<>>
    /\ state' = EmptyMap
    /\ out' = <<>>
    /\ err' = ""
    /\ IF c = "set"
       THEN day' = d /\ time' = t /\ now' = NoDate /\ pc' = "handle_set"
       ELSE IF c = "display"
       THEN day' = NoDate /\ time' = 0 /\ now' = d /\ pc' = "draw_days"
       ELSE day' = NoDate /\ time' = 0 /\ now' = d /\ pc' = "handle_print"
    /\ UNCHANGED <<files, dirExists>>

\* a load that has already opened the file for writing when it fails
LoadFailedTruncated(e) ==
    /\ Fail(e)
    /\ state' = state
    /\ files' = Insert(files, TimesheetFilePath(project, day), <<>>)

\* handle_set returns the error of the load: nothing was written
LoadFailed(e) ==
    /\ Fail(e)
    /\ state' = state
    /\ files' = files

\* handle_set up to the update of the record: load the month or start it
HandleSet ==
    /\ pc = "handle_set"
    /\ LET path == TimesheetFilePath(project, day)
       IN  /\ existed' = (path \in DOMAIN files)
           /\ IF path \in DOMAIN files
              THEN LET r == LoadExisting(files[path], day)
                   IN  /\ data' = files[path]
                       /\ dirExists' = dirExists
                       /\ IF r.err # ""
                          THEN LoadFailed(r.err)
                          ELSE /\ state' = SetDay(r.state, day, time)
                               /\ pc' = "create"
                               /\ err' = err
                               /\ files' = files
              ELSE /\ dirExists' = TRUE
                   /\ data' = data
                   /\ state' = SetDay(FreshMonth(WithDay1(day), day, EmptyMap), day, time)
                   /\ pc' = "create"
                   /\ err' = err
                   /\ files' = files
    /\ UNCHANGED <<cmd, project, day, time, now, out, n>>

\* File::create: the file exists and is empty; then `state` becomes the
\* sorted Vec of its entries
FileCreate ==
    /\ pc = "create"
    /\ files' = Insert(files, TimesheetFilePath(project, day), <<>>)
    /\ state' = SortedEntries(state)
    /\ pc' = "write_dates"
    /\ UNCHANGED <<dirExists, cmd, project, day, time, existed, data, now,
                   out, err, n>>

\* the first writeln!
WriteDates ==
    /\ pc = "write_dates"
    /\ files' = [files EXCEPT ![TimesheetFilePath(project, day)] =
                    @ \o DatesLine(state) \o <<"\n">>]
    /\ pc' = "write_hours"
    /\ UNCHANGED <<dirExists, cmd, project, day, time, existed, data, state, now,
                   out, err, n>>

\* the second writeln!, then print_display(project, &data_dir, day)
WriteHours ==
    /\ pc = "write_hours"
    /\ files' = [files EXCEPT ![TimesheetFilePath(project, day)] =
                    @ \o HoursLine(state) \o <<"\n">>]
    /\ now' = day
    /\ pc' = "draw_days"
    /\ UNCHANGED <<dirExists, cmd, project, day, time, existed, data, state,
                   out, err, n>>

\* File::create or a writeln! returns an error: handle_set returns it
WriteFail ==
    /\ pc \in {"create", "write_dates", "write_hours"}
    /\ Fail("IoError")
    /\ UNCHANGED <<files, dirExists, cmd, project, day, time, existed, data,
                   state, now, out, n>>

\* draw_days
DrawDays ==
    /\ pc = "draw_days"
    /\ out' = DayCells(WithDay1(now), now, out)
    /\ pc' = "draw_timesheet"
    /\ UNCHANGED <<files, dirExists, cmd, project, day, time, existed, data,
                   state, now, err, n>>

\* draw_timesheet: open, read, lines().nth(1), split(','), the loop
DrawTimesheet ==
    /\ pc = "draw_timesheet"
    /\ LET path == TimesheetFilePath(project, now)
       IN  IF path \notin DOMAIN files
           THEN Fail("NotFound") /\ UNCHANGED <<data, out>>
           ELSE /\ data' = files[path]
                /\ IF Len(Lines(files[path])) < 2
                   THEN Fail("Invalid timesheet file") /\ out' = out
                   ELSE LET r == HourCells(WithDay1(now), now,
                                           Split(Lines(files[path])[2], ","), out)
                        IN  /\ out' = r.out
                            /\ IF r.err # "" THEN Fail(r.err)
                               ELSE pc' = "done" /\ err' = err
    /\ UNCHANGED <<files, dirExists, cmd, project, day, time, existed, state,
                   now, n>>

\* handle_print: the file as it is
HandlePrint ==
    /\ pc = "handle_print"
    /\ LET path == TimesheetFilePath(project, now)
       IN  IF path \notin DOMAIN files
           THEN Fail("NotFound") /\ UNCHANGED <<data, out>>
           ELSE /\ data' = files[path]
                /\ out' = <<Token("raw", files[path])>>
                /\ pc' = "done"
                /\ err' = err
    /\ UNCHANGED <<files, dirExists, cmd, project, day, time, existed, state,
                   now, n>>

\* the steps of a running invocation
Run ==
    \/ HandleSet
    \/ FileCreate
    \/ WriteDates
    \/ WriteHours
    \/ WriteFail
    \/ DrawDays
    \/ DrawTimesheet
    \/ HandlePrint

Next ==
    \/ \E c \in Commands, p \in Projects, d \in TestDates, t \in TestHours :
           Main(c, p, d, t)
    \/ Run

Spec == Init /\ [][Next]_vars

\* an invocation is running: one of the steps of Run can be taken
Running == pc \notin {"idle", "done", "failed"}

\* A started invocation runs until it returns: weak fairness of Run.  This is
\* WF_vars(Run), that is []<>(~ENABLED <<Run>>_vars) \/ []<><<Run>>_vars, with
\* ENABLED <<Run>>_vars written as the state predicate Running it equals
\* (every position of a running invocation has a step, and every step moves pc).
RunFairness == []<>(~Running) \/ []<><<Run>>_vars

FairSpec == Spec /\ RunFairness

-----------------------------------------------------------------------------
(* What the properties below speak about *)

MonthLen(d) == DaysInMonth(d.y, d.m)

\* the file of the running `set`
SetPath == TimesheetFilePath(project, day)

\* the running `set` has written both lines
Saved == cmd = "set" /\ pc \in {"draw_days", "draw_timesheet", "done"}

\* the running `set` has loaded the month and not yet rendered: data is still
\* the content the file had when the invocation began
Loaded == cmd = "set" /\ pc \in {"create", "write_dates", "write_hours", "draw_days",
                                  "draw_timesheet"}

\* the hour tokens of a content that has a second line
DataTokens(content) == Split(Lines(content)[2], ",")

Min(a, b) == IF a < b THEN a ELSE b

\* the content has no second line, fewer values than the month has days, or a
\* token that is no unsigned integer at the position of a day
Unloadable(content, d) ==
    LET ls == Lines(content)
        hours == Split(ls[2], ",")
    IN  \/ Len(ls) < 2
        \/ Len(hours) < MonthLen(d)
        \/ \E i \in 1..MonthLen(d) : ParseUsize(hours[i]) = ParseError

\* exactly two lines: every date of the month of d in ascending order, and as
\* many hour values, t at the position of d
CompleteFor(content, d, t) ==
    LET ls == Lines(content)
    IN  /\ Len(ls) = 2
        /\ content = ls[1] \o <<"\n">> \o ls[2] \o <<"\n">>
        /\ Split(ls[1], ",") = [i \in 1..MonthLen(d) |-> DateToString(Date(d.y, d.m, i))]
        /\ LET hours == Split(ls[2], ",")
           IN  /\ Len(hours) = MonthLen(d)
               /\ \A i \in 1..MonthLen(d) : ParseUsize(hours[i]) # ParseError
               /\ hours[d.d] = to_string(t)

\* the printed lines, and the cells of a line
PrintedLines == Split(out, Newline)

IsCell(tok) == tok.style # "sep"

CellsOf(line) == SelectSeq(line, IsCell)

\* the day of the month whose cell is at, or last before, position i of a line
DayAt(line, i) == Cardinality({j \in 1..i : IsCell(line[j])})

SeparatorsOf(line) == {DayAt(line, i) : i \in {j \in 1..Len(line) : ~IsCell(line[j])}}

\* text is v followed by spaces up to a width of 3
Shows(text, v) ==
    /\ Len(text) = (IF Len(v) < 3 THEN 3 ELSE Len(v))
    /\ SubSeq(text, 1, Len(v)) = v
    /\ \A i \in (Len(v) + 1)..Len(text) : text[i] = " "

-----------------------------------------------------------------------------
\* C1: once a `set` has written its file, the file is exactly two lines; line
\* 1 is the ISO date of every day of the month from the 1st to the last, in
\* ascending order without gap, duplicate or extra day, and line 2 has as many
\* hour values, the value just set at the position of its date.
C1_TwoLinesEveryDay == Saved => CompleteFor(files[SetPath], day, time)

\* a second `set` on the 29-day February of a leap year, whose file the first
\* `set` created
C1_Witness ==
    /\ Saved /\ pc = "done" /\ n = 2 /\ existed
    /\ day = Date(2024, 2, 29)
    /\ Len(DataTokens(files[SetPath])) = 29

\* C2 as stated: after `set` on an existing file the data line has the new
\* hours at the date's position and, at every other day's position, the very
\* token that was stored there before.
C2_OthersByteIdentical ==
    (Loaded /\ Saved /\ existed) =>
        LET old == DataTokens(data)
            new == DataTokens(files[SetPath])
        IN  /\ new[day.d] = to_string(time)
            /\ \A i \in (1..MonthLen(day)) \ {day.d} : new[i] = old[i]

\* decimal digits only, no sign, no leading zero
IsCanonical(tok) ==
    /\ Len(tok) >= 1
    /\ \A i \in 1..Len(tok) : IsDigit(tok[i])
    /\ Len(tok) = 1 \/ tok[1] # "0"

\* C2 as amended: the data line has the new hours at the date's position and,
\* at every other day's position, the decimal rendering of the number the old
\* token parsed to, which is the old token itself when that was written
\* without sign or leading zero.
C2_OthersSameValue ==
    (Loaded /\ Saved /\ existed) =>
        LET old == DataTokens(data)
            new == DataTokens(files[SetPath])
        IN  /\ new[day.d] = to_string(time)
            /\ \A i \in (1..MonthLen(day)) \ {day.d} :
                   /\ ParseUsize(new[i]) = ParseUsize(old[i])
                   /\ new[i] = to_string(ParseUsize(old[i]))
                   /\ (IsCanonical(old[i]) => new[i] = old[i])

\* a `set` on a hand-edited file: "08" was stored for the 2nd, "8" is written
C2_Witness ==
    /\ Loaded /\ Saved /\ existed /\ day.d # 2
    /\ DataTokens(data)[2] = <<"0", "8">>
    /\ DataTokens(files[SetPath])[2] = <<"8">>

\* C3: the file a `set` has saved loads, as the next `set` loads it, into a
\* record equal on every day of the month to the record that was saved.
C3_RoundTrip ==
    Saved =>
        LET r == LoadExisting(files[SetPath], day)
            loaded == r.state
        IN  /\ r.err = ""
            /\ Len(state) = MonthLen(day)
            /\ DOMAIN loaded = {state[i][1] : i \in 1..Len(state)}
            /\ \A i \in 1..Len(state) : loaded[state[i][1]] = state[i][2]

\* a saved record that holds 0, 8 and a two-digit value
C3_Witness ==
    /\ Saved /\ pc = "done" /\ time = 8
    /\ \E i \in 1..Len(state) : state[i][2] = 12
    /\ \E i \in 1..Len(state) : state[i][2] = 0

\* C4: a load of an existing file that did not fail read a file with a second
\* line holding exactly one hour value per day of the month.
C4_CountMismatchFails ==
    (Loaded /\ existed) =>
        /\ Len(Lines(data)) >= 2
        /\ Len(DataTokens(data)) = MonthLen(day)

\* C5: loading a month that has no file gives 0 for every day of the month
\* (the first `set` then holds the new hours and 0 elsewhere) and fails in no
\* command.
C5_LoadMissingGivesZeros ==
    /\ (cmd = "set" /\ pc = "create" /\ ~existed) =>
           /\ DOMAIN state = {Date(day.y, day.m, i) : i \in 1..MonthLen(day)}
           /\ \A k \in DOMAIN state : state[k] = (IF k = day THEN time ELSE 0)
    /\ (cmd = "display" /\ TimesheetFilePath(project, now) \notin DOMAIN files) =>
           pc # "failed"

\* C6: at every point of a `set`, whether it goes on or has failed, the file
\* is as it was before the invocation or holds the complete new content.
C6_NoPartialFile ==
    (cmd = "set" /\ pc # "handle_set") =>
        \/ pc \in {"create", "write_dates", "write_hours", "failed"}
           /\ IF existed THEN SetPath \in DOMAIN files /\ files[SetPath] = data
              ELSE SetPath \notin DOMAIN files
        \/ SetPath \in DOMAIN files /\ CompleteFor(files[SetPath], day, time)

\* the file rendered has a second line with a value for every day of the month
Covered ==
    /\ TimesheetFilePath(project, now) \in DOMAIN files
    /\ Len(Lines(files[TimesheetFilePath(project, now)])) >= 2
    /\ Len(DataTokens(files[TimesheetFilePath(project, now)])) >= MonthLen(now)

\* two printed lines, each of one cell per day of the month: the day numbers
\* 1 to the last day on line 1, an hours cell per day on line 2
RenderedFull ==
    LET pl == PrintedLines
        days == CellsOf(pl[1])
        hours == CellsOf(pl[2])
    IN  /\ Len(pl) = 3 /\ pl[3] = <<>>
        /\ Len(days) = MonthLen(now)
        /\ \A k \in 1..MonthLen(now) : days[k] = Token("header", LeftAlign3(to_string(k)))
        /\ Len(hours) = MonthLen(now)
        /\ \A k \in 1..MonthLen(now) : hours[k].style \in {"weekday", "weekend"}

\* the errors draw_timesheet returns
DrawErrors == {"NotFound", "Invalid timesheet file", "Missing day data"}

\* C7: a rendering of a month whose file has a value for every day ends, with
\* exactly one cell per day of that month on each of the two lines, from day
\* 1 to the last day and none of the next month: every rendering ends, one
\* that ends in an error had no such file, and one that ends well has printed
\* those cells.
C7_RenderTerminates ==
    /\ (pc \in {"draw_days", "draw_timesheet"}) ~> (pc \in {"done", "failed"})
    /\ [](cmd \in {"set", "display"} /\ pc = "failed" /\ err \in DrawErrors => ~Covered)
    /\ [](cmd \in {"set", "display"} /\ pc = "done" => RenderedFull)

\* a `display` of a December: 31 cells per line, none of January
C7_Witness ==
    /\ pc = "done" /\ cmd = "display" /\ now = Date(2023, 12, 31)
    /\ RenderedFull
    /\ Len(CellsOf(PrintedLines[1])) = 31

\* the separators of one printed line stand after the Sundays and nowhere else
SeparatorRule(line) ==
    \A i \in 1..Len(line) :
        LET d == Date(now.y, now.m, DayAt(line, i))
        IN  IF IsCell(line[i])
            THEN (Weekday(d) = "Sun") => (i < Len(line) /\ ~IsCell(line[i + 1]))
            ELSE /\ i > 1 /\ IsCell(line[i - 1])
                 /\ Weekday(d) = "Sun"
                 /\ Weekday(Succ(d)) = "Mon"

\* C8: on both printed lines a separator follows the cell of a day exactly
\* when the next calendar day is a Monday, also after a Sunday that ends the
\* month; the separators of line 2 stand where those of line 1 do.
C8_SeparatorAfterSunday ==
    (cmd \in {"set", "display"} /\ out # <<>>) =>
        LET pl == PrintedLines
        IN  /\ \A l \in 1..Min(Len(pl), 2) : SeparatorRule(pl[l])
            /\ pc = "done" => SeparatorsOf(pl[1]) = SeparatorsOf(pl[2])

\* a `display` of December 2023, whose last day is a Sunday: both lines end
\* with a separator
C8_Witness ==
    /\ pc = "done" /\ cmd = "display" /\ now = Date(2023, 12, 31)
    /\ PrintedLines[1][Len(PrintedLines[1])] = Separator
    /\ PrintedLines[2][Len(PrintedLines[2])] = Separator
    /\ DayAt(PrintedLines[2], Len(PrintedLines[2])) = 31

\* C9: on line 2 a Saturday or Sunday cell is in weekend style, three spaces
\* when the stored value is 0 and the stored value otherwise; a Monday to
\* Friday cell is in weekday style and shows the stored value, 0 included.
C9_WeekendZeroBlank ==
    (cmd \in {"set", "display"} /\ (pc = "done" \/ err = "Missing day data")) =>
        LET cells == CellsOf(PrintedLines[2])
            amts == DataTokens(data)
        IN  \A k \in 1..Len(cells) :
                LET wd == Weekday(Date(now.y, now.m, k))
                IN  IF wd \in {"Sat", "Sun"} /\ amts[k] = <<"0">>
                    THEN cells[k] = Token("weekend", <<" ", " ", " ">>)
                    ELSE IF wd \in {"Sat", "Sun"}
                    THEN cells[k].style = "weekend" /\ Shows(cells[k].text, amts[k])
                    ELSE cells[k].style = "weekday" /\ Shows(cells[k].text, amts[k])

\* April 2024: the 1st, a Monday, was set to 8 and the 6th, a Saturday, to 0
C9_Witness ==
    /\ pc = "done" /\ cmd = "set" /\ day = Date(2024, 4, 6) /\ time = 0
    /\ CellsOf(PrintedLines[2])[1] = Token("weekday", <<"8", " ", " ">>)
    /\ CellsOf(PrintedLines[2])[2] = Token("weekday", <<"0", " ", " ">>)
    /\ CellsOf(PrintedLines[2])[6] = Token("weekend", <<" ", " ", " ">>)

\* C10: a `set` that fails while loading leaves the file as it was and prints
\* nothing; a file with no second line, with fewer values than days or with a
\* token that is no unsigned integer makes the load fail.
C10_FailedLoadKeepsFile ==
    /\ (cmd = "set" /\ pc = "failed" /\ err # "IoError") =>
           /\ existed
           /\ SetPath \in DOMAIN files /\ files[SetPath] = data
           /\ out = <<>>
           /\ Unloadable(data, day)
    /\ (Loaded /\ existed) => ~Unloadable(data, day)

\* a `set` on a file whose value for the 2nd is -1
C10_Witness ==
    /\ cmd = "set" /\ pc = "failed" /\ err = "ParseIntError"
    /\ DataTokens(data)[2] = <<"-", "1">>
    /\ files[SetPath] = data

=============================================================================
